---- MODULE Spec2Model ----
(***************************************************************************)
(* wardrobe.stackeddict.StackedDict: a dictionary with commit()/reset()    *)
(* layers, kept as one active dict plus, per open layer, the set of keys   *)
(* created in the layer and the dict of overriden (key, value) pairs.      *)
(*                                                                         *)
(* Python objects are modelled with their identity where the code shares   *)
(* them: the deques _created and _overriden hold references into two heaps *)
(* (sets, dicts), so that copy(), which copies the deques but not the      *)
(* objects in them, is modelled by what it does.                           *)
(***************************************************************************)
EXTENDS Integers, Sequences, FiniteSets, TLC

\* ------------------------------------------------------------- bounds
NumKeys == 2
NumVals == 2
MaxCalls == 5
MaxKwargs == 1

KeyNames == <<"a", "b", "c", "d", "e">>
Keys == {KeyNames[i] : i \in 1..NumKeys}
Values == 1..NumVals
Maps == {"s", "s2"}
NumRefs == MaxCalls + 1
Refs == 1..NumRefs

\* ------------------------------------------------------ dict helpers
\* A Python dict is a function whose domain is its set of keys.
EmptyDict == [k \in {} |-> 0]
Dicts == UNION {[S -> Values] : S \in SUBSET Keys}
Put(f, key, value) == [k \in (DOMAIN f) \cup {key} |-> IF k = key THEN value ELSE f[k]]
Remove(f, key) == [k \in (DOMAIN f) \ {key} |-> f[k]]
Range(q) == {q[i] : i \in 1..Len(q)}
\* The orders in which a loop may visit the keys of a set or of a dict.
Orders == {q \in [1..NumKeys -> Keys] : \A i, j \in 1..NumKeys : i # j => q[i] # q[j]}

VARIABLES
    alive,      \* the StackedDict instances constructed so far
    dict,       \* dict[m]: the instance's _dict (the active layer)
    created,    \* created[m]: the deque _created, top first, of references into sets
    overriden,  \* overriden[m]: the deque _overriden, top first, of references into dicts
    sets,       \* the set objects the _created deques refer to
    dicts,      \* the dict objects the _overriden deques refer to
    last,       \* the last call: its operation, instance, key, outcome and returned value
    snap,       \* history: dict of "s" as it was at each commit() not yet reset, top first
    hist,       \* history: per open layer of "s" and key, what was done to the key in it
    popped,     \* history: the snap and hist of the layer the last call, a reset() on "s", popped
    open,       \* history: commit() calls on "s" minus reset() calls on "s" that returned
    steps,      \* number of calls made so far
    args,       \* history: the mappings given to the constructor or to the last call, if kept
    blocks,     \* the "with s:" blocks the program is in, innermost first
    stack,      \* the deque _stack of the wardrobe.stacks.StackedDict built beside "s", if any
    deleted     \* its deque _deleted_keys

vars == <<alive, dict, created, overriden, sets, dicts, last, snap, hist, popped, open, steps,
          args, blocks, stack, deleted>>

\* ---------------------------------------------------- object heaps
\* The references some deque still holds; an object no deque refers to is
\* garbage and its slot is reused.
LiveRefs(deques) == UNION {Range(deques[m]) : m \in Maps}
NewRef(live) == CHOOSE r \in Refs \ live : \A q \in Refs \ live : r <= q
Collect(heap, live, empty) == [r \in Refs |-> IF r \in live THEN heap[r] ELSE empty]

\* StackedDict._has_layers
HasLayers(m) == Len(overriden[m]) > 0

\* The objects a call on m works on: _dict, _created[0], _overriden[0].
Top(m) ==
    IF HasLayers(m)
    THEN [d |-> dict[m], c |-> sets[created[m][1]], o |-> dicts[overriden[m][1]]]
    ELSE [d |-> dict[m], c |-> {}, o |-> EmptyDict]

\* Write back what a call did to _dict, _created[0] and _overriden[0].
Store(m, r) ==
    /\ dict' = [dict EXCEPT ![m] = r.d]
    /\ sets' = IF HasLayers(m) THEN [sets EXCEPT ![created[m][1]] = r.c] ELSE sets
    /\ dicts' = IF HasLayers(m) THEN [dicts EXCEPT ![overriden[m][1]] = r.o] ELSE dicts
    /\ UNCHANGED <<alive, created, overriden>>

\* ------------------------------------------------ history variables
\* What has been done to a key in a layer since its commit():
\*   "none"    nothing;
\*   "set1"    one set;            "sets"    several sets, nothing else;
\*   "del1"    sets (or none), then one delete;
\*   "setdel"  any other mix of set and delete;
\*   "nested"  set, delete, and commit()...reset() blocks of set and delete;
\*   "delnest" "del1", then only commit()...reset() blocks of set and delete;
\*   "pops"    sets and pops of a visible key (pop or popitem), at least one pop;
\*   "cleared" set and delete, then one clear() that returned;
\*   "other"   anything else.
Touch(h, op) ==
    IF h \in {"other", "cleared"} THEN "other"
    ELSE IF h = "nested" THEN (IF op \in {"set", "del", "commit"} THEN "nested" ELSE "other")
    ELSE IF h = "delnest"
    THEN (IF op = "commit" THEN "delnest" ELSE IF op \in {"set", "del"} THEN "nested" ELSE "other")
    ELSE IF h = "pops" THEN (IF op \in {"set", "pop"} THEN "pops" ELSE "other")
    ELSE IF op = "pop" THEN (IF h \in {"none", "set1", "sets"} THEN "pops" ELSE "other")
    ELSE IF op = "set"
    THEN (IF h = "none" THEN "set1" ELSE IF h = "set1" THEN "sets"
          ELSE IF h = "sets" THEN "sets" ELSE "setdel")
    ELSE IF op = "del" THEN (IF h \in {"none", "set1", "sets"} THEN "del1" ELSE "setdel")
    ELSE IF op = "commit" THEN (IF h = "del1" THEN "delnest" ELSE "nested")
    ELSE IF op = "clear" THEN "cleared"
    ELSE "other"

LogIn(hs, m, keys, op) ==
    IF m = "s" /\ Len(hs) > 0
    THEN [hs EXCEPT ![1] = [k \in Keys |-> IF k \in keys THEN Touch(@[k], op) ELSE @[k]]]
    ELSE hs

Log(m, keys, op) == LogIn(hist, m, keys, op)

\* The history of the enclosing layers once the top layer h has been reset:
\* a layer that held more than set and delete marks the layer below it.
Unnest(hs, h, exc) ==
    IF Len(hs) > 0 /\ (exc # "ok" \/ \E k \in Keys : h[k] \in {"other", "cleared", "pops"})
    THEN [hs EXCEPT ![1] = [k \in Keys |-> "other"]]
    ELSE hs

NoPopped == [snap |-> EmptyDict, hist |-> [k \in Keys |-> "none"]]

\* A run makes at most MaxCalls calls, each on an instance that exists.
CanCall(m) == m \in alive /\ steps < MaxCalls

\* One call: what it was and how it ended.
Record(m, op, key, result, ret, value) ==
    /\ steps' = steps + 1
    /\ last' = [op |-> op, map |-> m, key |-> key, result |-> result, ret |-> ret, value |-> value]

Called(m, op, key, result, ret, value) ==
    /\ Record(m, op, key, result, ret, value)
    /\ popped' = NoPopped

\* What a call outside the "with" protocol and on no twin leaves as it is; a
\* call that is not a set or a delete marks the block it is made in.
Noted(bs, op) ==
    IF Len(bs) > 0 /\ op \notin {"setitem", "delitem"}
    THEN [bs EXCEPT ![1].body = "other"]
    ELSE bs

NoArgs == [initial |-> <<>>, kwargs |-> EmptyDict]

Plain == args' = NoArgs /\ blocks' = Noted(blocks, last'.op) /\ UNCHANGED <<stack, deleted>>

\* ------------------------------------------------------ __setitem__
\* Mutant: the backup is overwritten by every write.
BackupAlways(o, key, value) == Put(o, key, value)

\* "Backup hasn't been set yet": keep the first value backed up in the layer.
Backup(o, key, value) == IF key \in DOMAIN o THEN o ELSE Put(o, key, value)

\* Mutant: a key that is new in the layer is not recorded as created.
SetItemTopNoCreate(has, d, c, o, key, value) ==
    [d |-> Put(d, key, value),
     c |-> c,
     o |-> IF has /\ key \in DOMAIN d /\ key \notin c THEN Backup(o, key, d[key]) ELSE o]

SetItemTop(has, d, c, o, key, value) ==
    [d |-> Put(d, key, value),
     c |-> IF has /\ key \notin DOMAIN d THEN c \cup {key} ELSE c,
     o |-> IF has /\ key \in DOMAIN d /\ key \notin c THEN Backup(o, key, d[key]) ELSE o]

SetItem(m, key, value) ==
    /\ CanCall(m)
    /\ LET t == Top(m) IN Store(m, SetItemTop(HasLayers(m), t.d, t.c, t.o, key, value))
    /\ Called(m, "setitem", key, "ok", "None", 0)
    /\ hist' = Log(m, {key}, "set")
    /\ UNCHANGED <<snap, open>>

\* ------------------------------------------------------ __delitem__
\* Mutant: the delete of a key that is not there is passed over in silence.
DelItemTopQuiet(has, d, c, o, key) ==
    IF has /\ key \in c
    THEN [d |-> d, c |-> c \ {key}, o |-> o, exc |-> "ok"]
    ELSE IF key \notin DOMAIN d
    THEN [d |-> d, c |-> c, o |-> o, exc |-> "ok"]
    ELSE [d |-> Remove(d, key), c |-> c, o |-> IF has THEN Put(o, key, d[key]) ELSE o,
          exc |-> "ok"]

DelItemTop(has, d, c, o, key) ==
    IF has /\ key \in c
    THEN [d |-> d, c |-> c \ {key}, o |-> o, exc |-> "ok"]
    ELSE IF key \notin DOMAIN d
    THEN [d |-> d, c |-> c, o |-> o, exc |-> "KeyError"]
    ELSE [d |-> Remove(d, key), c |-> c, o |-> IF has THEN Put(o, key, d[key]) ELSE o,
          exc |-> "ok"]

DelItem(m, key) ==
    /\ CanCall(m)
    /\ LET t == Top(m)
           r == DelItemTop(HasLayers(m), t.d, t.c, t.o, key)
       IN /\ Store(m, r)
          /\ Called(m, "delitem", key, r.exc, "None", 0)
    /\ hist' = Log(m, {key}, "del")
    /\ UNCHANGED <<snap, open>>

\* -------------------------------------------------- pop and popitem
\* Mutant: a pair that was there before the layer is removed without backup.
UnrecordNoBackup(has, c, o, key, value) ==
    IF has /\ key \in c THEN [c |-> c \ {key}, o |-> o] ELSE [c |-> c, o |-> o]

\* Mutant: a popped key stays in the created set of the layer.
UnrecordKeepCreated(has, c, o, key, value) ==
    IF ~has \/ key \in c THEN [c |-> c, o |-> o]
    ELSE [c |-> c, o |-> Backup(o, key, value)]

\* After _dict.pop / _dict.popitem gave (key, value): the layer's bookkeeping.
Unrecord(has, c, o, key, value) ==
    IF ~has THEN [c |-> c, o |-> o]
    ELSE IF key \in c THEN [c |-> c \ {key}, o |-> o]
    ELSE [c |-> c, o |-> Backup(o, key, value)]

PopTop(has, d, c, o, key, hasDefault, default) ==
    IF key \notin DOMAIN d /\ ~hasDefault
    THEN [d |-> d, c |-> c, o |-> o, exc |-> "KeyError", value |-> 0]
    ELSE LET value == IF key \in DOMAIN d THEN d[key] ELSE default
             u == Unrecord(has, c, o, key, value)
         IN [d |-> Remove(d, key), c |-> u.c, o |-> u.o, exc |-> "ok", value |-> value]

Pop(m, key) ==
    /\ CanCall(m)
    /\ LET t == Top(m)
           r == PopTop(HasLayers(m), t.d, t.c, t.o, key, FALSE, 0)
       IN /\ Store(m, r)
          /\ Called(m, "pop", key, r.exc, IF r.exc = "ok" THEN "value" ELSE "None", r.value)
    /\ hist' = Log(m, {key}, IF key \in DOMAIN dict[m] THEN "pop" ELSE "popfailed")
    /\ UNCHANGED <<snap, open>>

PopDefault(m, key, default) ==
    /\ CanCall(m)
    /\ LET t == Top(m)
           r == PopTop(HasLayers(m), t.d, t.c, t.o, key, TRUE, default)
       IN /\ Store(m, r)
          /\ Called(m, "popdefault", key, r.exc, "value", r.value)
    /\ hist' = Log(m, {key}, IF key \in DOMAIN dict[m] THEN "pop" ELSE "popdefault")
    /\ UNCHANGED <<snap, open>>

\* dict.popitem() removes some pair: which one is the dict's own choice.
PopItem(m) ==
    /\ CanCall(m)
    /\ IF dict[m] = EmptyDict
       THEN /\ Called(m, "popitem", "", "KeyError", "None", 0)
            /\ UNCHANGED <<alive, dict, created, overriden, sets, dicts, hist>>
       ELSE \E key \in DOMAIN dict[m] :
               LET t == Top(m)
                   u == Unrecord(HasLayers(m), t.c, t.o, key, t.d[key])
               IN /\ Store(m, [d |-> Remove(t.d, key), c |-> u.c, o |-> u.o])
                  /\ Called(m, "popitem", key, "ok", "pair", t.d[key])
                  /\ hist' = Log(m, {key}, "pop")
    /\ UNCHANGED <<snap, open>>

\* ------------------------------------------------------------ clear
\* "for key in keys: del d[key]", visiting the keys in the order ord: the loop
\* stops with KeyError at the first key that d does not hold.
RECURSIVE DelLoop(_, _, _, _)
DelLoop(d, keys, ord, i) ==
    IF i > NumKeys THEN [d |-> d, exc |-> "ok"]
    ELSE IF ord[i] \notin keys THEN DelLoop(d, keys, ord, i + 1)
    ELSE IF ord[i] \in DOMAIN d THEN DelLoop(Remove(d, ord[i]), keys, ord, i + 1)
    ELSE [d |-> d, exc |-> "KeyError"]

\* The orders to tell apart for such a loop: the order shows only in how far
\* the loop gets before a missing key, so one order stands for all of them
\* when d holds every key.
OrdersFor(d, keys) ==
    IF keys \subseteq DOMAIN d THEN {CHOOSE ord \in Orders : TRUE} ELSE Orders

\* "Remaining keys are overriden ones": every pair left in d moves to o.
BackupRemaining(d, o) ==
    [k \in (DOMAIN o) \cup (DOMAIN d) |-> IF k \in DOMAIN d THEN d[k] ELSE o[k]]

\* clear() with a layer open. at: how far it got ("created": raised in the first
\* loop, "overriden": raised in the second, "done").
ClearTop(d, c, o, ord1, ord2) ==
    LET r1 == DelLoop(d, c, ord1, 1)
        r2 == DelLoop(r1.d, DOMAIN o, ord2, 1)
    IN IF r1.exc # "ok" THEN [d |-> r1.d, c |-> c, o |-> o, at |-> "created"]
       ELSE IF r2.exc # "ok" THEN [d |-> r2.d, c |-> {}, o |-> o, at |-> "overriden"]
       ELSE [d |-> EmptyDict, c |-> {}, o |-> BackupRemaining(r2.d, o), at |-> "done"]

Clear(m) ==
    /\ CanCall(m)
    /\ IF ~HasLayers(m)
       THEN /\ dict' = [dict EXCEPT ![m] = EmptyDict]
            /\ Called(m, "clear", "", "ok", "None", 0)
            /\ UNCHANGED <<created, sets, dicts, hist>>
       ELSE \E ord1 \in OrdersFor(Top(m).d, Top(m).c) :
            \E ord2 \in OrdersFor(DelLoop(Top(m).d, Top(m).c, ord1, 1).d, DOMAIN Top(m).o) :
               LET t == Top(m)
                   r == ClearTop(t.d, t.c, t.o, ord1, ord2)
                   \* self._created[0] = set(): a new set object
                   new == NewRef(LiveRefs(created))
                   cr == IF r.at = "created" THEN created
                         ELSE [created EXCEPT ![m] = <<new>> \o Tail(@)]
               IN /\ dict' = [dict EXCEPT ![m] = r.d]
                  /\ created' = cr
                  /\ sets' = Collect([sets EXCEPT ![new] = {}], LiveRefs(cr), {})
                  /\ dicts' = [dicts EXCEPT ![overriden[m][1]] = r.o]
                  /\ Called(m, "clear", "", IF r.at = "done" THEN "ok" ELSE "KeyError", "None", 0)
                  /\ hist' = Log(m, Keys, IF r.at = "done" THEN "clear" ELSE "clearfailed")
    /\ UNCHANGED <<alive, overriden, snap, open>>

\* ----------------------------------------------------------- commit
\* Mutant: append() instead of appendleft().
AppendRight(q, x) == q \o <<x>>

\* deque.appendleft
AppendLeft(q, x) == <<x>> \o q

\* What commit() does to the map, whoever calls it.
PushLayer(m) ==
    /\ LET c == NewRef(LiveRefs(created))
           o == NewRef(LiveRefs(overriden))
       IN /\ created' = [created EXCEPT ![m] = AppendLeft(@, c)]
          /\ overriden' = [overriden EXCEPT ![m] = AppendLeft(@, o)]
          /\ sets' = [sets EXCEPT ![c] = {}]
          /\ dicts' = [dicts EXCEPT ![o] = EmptyDict]
    /\ IF m = "s"
       THEN /\ snap' = <<dict[m]>> \o snap
            /\ hist' = <<[k \in Keys |-> "none"]>> \o Log(m, Keys, "commit")
            /\ open' = open + 1
       ELSE UNCHANGED <<snap, hist, open>>
    /\ UNCHANGED <<alive, dict>>

Commit(m) ==
    /\ CanCall(m)
    /\ PushLayer(m)
    /\ Called(m, "commit", "", "ok", "self", 0)

\* ------------------------------------------------------------ reset
\* "Restore overridden (key, value) pairs."
Restore(d, o) == [k \in (DOMAIN d) \cup (DOMAIN o) |-> IF k \in DOMAIN o THEN o[k] ELSE d[k]]

\* The replay of a popped layer: delete the created keys, then restore.
ResetTop(d, c, o, ord) ==
    LET r == DelLoop(d, c, ord, 1)
    IN IF r.exc # "ok" THEN r ELSE [d |-> Restore(r.d, o), exc |-> "ok"]

\* Mutant: the IndexError of popleft() is not converted.
ResetErrorUnconverted(p) == IF p = "both" THEN "ok" ELSE "IndexError"

\* "except IndexError: raise NoRevisionException()"
ResetError(p) == IF p = "both" THEN "ok" ELSE "NoRevisionException"

\* Mutant: reset() returns the layer it popped.
ResetReturnLayer(exc) == IF exc = "ok" THEN "layer" ELSE "None"

\* "return self"
ResetReturn(exc) == IF exc = "ok" THEN "self" ELSE "None"

\* Mutant: reset() pops _created and leaves _overriden as it is.
PoppedCreatedOnly(m) ==
    IF Len(created[m]) = 0 THEN "none" ELSE "created"

\* What popleft() on the two deques does: "none" popped (IndexError on
\* _created), "created" (IndexError on _overriden), or "both".
Popped(m) ==
    IF Len(created[m]) = 0 THEN "none"
    ELSE IF Len(overriden[m]) = 0 THEN "created"
    ELSE "both"

\* How a "with" statement ends: __exit__ returns None, so an exception of the
\* block propagates, unless the reset() of __exit__ raised its own.
ExitOutcome(exc, raised) == IF exc # "ok" THEN exc ELSE IF raised THEN "raised" ELSE "ok"

Outcome(op, exc, raised) == IF op = "exit" THEN ExitOutcome(exc, raised) ELSE exc
Returns(op, exc) == IF op = "exit" THEN "None" ELSE ResetReturn(exc)

\* What reset() does, called by the program (op "reset") or by __exit__ (op
\* "exit", raised: the block ended with an exception).
Unwind(m, op, raised) ==
    /\ CanCall(m)
    /\ LET cr == IF Popped(m) = "none" THEN created ELSE [created EXCEPT ![m] = Tail(@)]
           ov == IF Popped(m) = "both" THEN [overriden EXCEPT ![m] = Tail(@)] ELSE overriden
       IN /\ created' = cr
          /\ overriden' = ov
          /\ sets' = Collect(sets, LiveRefs(cr), {})
          /\ dicts' = Collect(dicts, LiveRefs(ov), EmptyDict)
          /\ IF Popped(m) # "both"
             THEN /\ Called(m, op, IF raised THEN "raised" ELSE "",
                            Outcome(op, ResetError(Popped(m)), raised), "None", 0)
                  /\ UNCHANGED <<dict, snap, hist, open>>
             ELSE \E ord \in OrdersFor(Top(m).d, Top(m).c) :
                     LET t == Top(m)
                         r == ResetTop(t.d, t.c, t.o, ord)
                     IN /\ dict' = [dict EXCEPT ![m] = r.d]
                        /\ Record(m, op, IF raised THEN "raised" ELSE "",
                                  Outcome(op, r.exc, raised), Returns(op, r.exc), 0)
                        /\ IF m = "s"
                           THEN /\ snap' = Tail(snap)
                                /\ hist' = Unnest(Tail(hist), hist[1], r.exc)
                                /\ popped' = [snap |-> snap[1], hist |-> hist[1]]
                                /\ open' = IF r.exc = "ok" THEN open - 1 ELSE open
                           ELSE UNCHANGED <<snap, hist, open>> /\ popped' = NoPopped
    /\ UNCHANGED alive

Reset(m) == Unwind(m, "reset", FALSE)

\* ------------------------------------------------- __enter__, __exit__
\* A with statement has evaluated its context expression s.commit() and has
\* yet to call __enter__ on the map it returned.
Entering == Len(blocks) > 0 /\ blocks[1].body = "entering"

\* The block record of a with statement begun at the present state: the depth
\* and the visible pairs before the statement, and its form ("s" for
\* "with s:", "commit" for "with s.commit():").
Block(m, form, body) ==
    [depth |-> Len(overriden[m]), dict |-> dict[m], body |-> body, form |-> form]

\* "with s.commit():" begins: the context expression commits and returns s.
WithCommit(m) ==
    /\ ~Entering
    /\ Commit(m)
    /\ blocks' = <<Block(m, "commit", "entering")>> \o Noted(blocks, "commit")
    /\ args' = NoArgs
    /\ UNCHANGED <<stack, deleted>>

\* __enter__ calls commit() and returns None: "with s:" is entered, or the
\* with statement that has evaluated s.commit() enters its block.
Enter(m) ==
    /\ CanCall(m)
    /\ PushLayer(m)
    /\ Called(m, "enter", "", "ok", "None", 0)
    /\ blocks' = IF Entering THEN [blocks EXCEPT ![1].body = "setdel"]
                 ELSE <<Block(m, "s", "setdel")>> \o Noted(blocks, "enter")
    /\ args' = NoArgs
    /\ UNCHANGED <<stack, deleted>>

\* The innermost "with s:" block is left, normally or by an exception.
Exit(m, raised) ==
    /\ Len(blocks) > 0
    /\ Unwind(m, "exit", raised)
    /\ blocks' = Tail(blocks)
    /\ args' = NoArgs
    /\ UNCHANGED <<stack, deleted>>

\* ------------------------------------------------------------- copy
\* s2 = s.copy(): a new _dict with the same pairs, and new deques that hold
\* the same set and dict objects as the deques of s.
Copy ==
    /\ CanCall("s")
    /\ alive = {"s"}
    /\ alive' = {"s", "s2"}
    /\ dict' = [dict EXCEPT !["s2"] = dict["s"]]
    /\ created' = [created EXCEPT !["s2"] = created["s"]]
    /\ overriden' = [overriden EXCEPT !["s2"] = overriden["s"]]
    /\ Called("s", "copy", "", "ok", "copy", 0)
    /\ UNCHANGED <<sets, dicts, snap, hist, open>>

\* ------------------------------------------------------ __getitem__
GetItem(m, key) ==
    /\ CanCall(m)
    /\ IF key \in DOMAIN dict[m]
       THEN Called(m, "getitem", key, "ok", "value", dict[m][key])
       ELSE Called(m, "getitem", key, "KeyError", "None", 0)
    /\ UNCHANGED <<alive, dict, created, overriden, sets, dicts, snap, hist, open>>

\* ----------------------------------------------------------- update
\* Mutant: a second positional argument is let through, and ignored.
TooManyLax(n) == n > 2

\* "if len(args) > 1: raise TypeError"
TooMany(n) == n > 1

\* "for key in src: self[key] = src[key]": the writes are to different keys,
\* so the order of the loop does not show.
RECURSIVE SetEach(_, _, _, _)
SetEach(has, t, src, todo) ==
    IF todo = {} THEN t
    ELSE LET key == CHOOSE k \in todo : TRUE
         IN SetEach(has, SetItemTop(has, t.d, t.c, t.o, key, src[key]), src, todo \ {key})

\* update(*args, **kwargs) with n positional arguments, the first of them other.
Update(m, n, other, kwargs) ==
    /\ CanCall(m)
    /\ IF TooMany(n)
       THEN /\ Called(m, "update", "", "TypeError", "None", n)
            /\ UNCHANGED <<alive, dict, created, overriden, sets, dicts, hist>>
       ELSE LET t0 == Top(m)
                t1 == IF n > 0 THEN SetEach(HasLayers(m), t0, other, DOMAIN other) ELSE t0
                t2 == SetEach(HasLayers(m), t1, kwargs, DOMAIN kwargs)
                h1 == IF n > 0 THEN Log(m, DOMAIN other, "set") ELSE hist
            IN /\ Store(m, t2)
               /\ Called(m, "update", "", "ok", "None", n)
               /\ hist' = LogIn(h1, m, DOMAIN kwargs, "set")
    /\ UNCHANGED <<snap, open>>

\* ------------------------------------- wardrobe.stacks.StackedDict
\* The snapshot implementation: _stack holds one dict per layer, top first,
\* and _deleted_keys one set of deleted keys per layer.

\* __getitem__: the first layer that holds the key gives the value; the scan
\* stops with KeyError at a layer without the key if _deleted_keys[0] has it.
RECURSIVE StackScan(_, _)
StackScan(key, i) ==
    IF i > Len(stack) THEN [exc |-> "KeyError", value |-> 0]
    ELSE IF key \in DOMAIN stack[i] THEN [exc |-> "ok", value |-> stack[i][key]]
    ELSE IF key \in deleted[1] THEN [exc |-> "KeyError", value |-> 0]
    ELSE StackScan(key, i + 1)

StackGetItem(key) == StackScan(key, 1)

\* _has_key: the first layer that holds the key or has it deleted decides.
RECURSIVE StackHasFrom(_, _)
StackHasFrom(key, i) ==
    IF i > Len(stack) THEN FALSE
    ELSE IF key \in DOMAIN stack[i] THEN TRUE
    ELSE IF key \in deleted[i] THEN FALSE
    ELSE StackHasFrom(key, i + 1)

StackHasKey(key) == StackHasFrom(key, 1)

\* keys(): every layer's keys less the keys deleted in that same layer.
StackKeys == UNION {(DOMAIN stack[i]) \ deleted[i] : i \in 1..Len(stack)}

\* __setitem__
StackSetItem(key, value) ==
    /\ stack' = [stack EXCEPT ![1] = Put(@, key, value)]
    /\ deleted' = [deleted EXCEPT ![1] = @ \ {key}]

\* __delitem__: "del self._stack[0][key]" raises KeyError, before anything is
\* changed, for a key the top layer does not hold.
StackDelItem(key) ==
    IF key \in DOMAIN stack[1]
    THEN /\ stack' = [stack EXCEPT ![1] = Remove(@, key)]
         /\ deleted' = [deleted EXCEPT ![1] = @ \cup {key}]
    ELSE UNCHANGED <<stack, deleted>>

\* push()
StackPush ==
    /\ stack' = AppendLeft(stack, EmptyDict)
    /\ deleted' = AppendLeft(deleted, {})

\* pop(), called with a layer above the base
StackPop ==
    /\ Len(stack) > 1
    /\ stack' = Tail(stack)
    /\ deleted' = Tail(deleted)

\* A call made on both implementations.
Paired == args' = NoArgs /\ UNCHANGED blocks

\* ------------------------------------------------- specifications
\* __init__(initial=None, **kwargs): initial is <<>> for None, else <<mapping>>.
Construct(initial, kwargs) ==
    IF initial = <<>>
    THEN (IF kwargs # EmptyDict THEN kwargs ELSE EmptyDict)
    ELSE initial[1]

\* The state once s = StackedDict(initial, **kwargs) is built, with no layer;
\* twin: a wardrobe.stacks.StackedDict is built from equal arguments beside it.
Constructed(initial, kwargs, twin) ==
    /\ alive = {"s"}
    /\ dict = [m \in Maps |-> IF m = "s" THEN Construct(initial, kwargs) ELSE EmptyDict]
    /\ created = [m \in Maps |-> <<>>]
    /\ overriden = [m \in Maps |-> <<>>]
    /\ sets = [r \in Refs |-> {}]
    /\ dicts = [r \in Refs |-> EmptyDict]
    /\ last = [op |-> "init", map |-> "s", key |-> "", result |-> "ok", ret |-> "None", value |-> 0]
    /\ snap = <<>>
    /\ hist = <<>>
    /\ popped = NoPopped
    /\ open = 0
    /\ steps = 0
    /\ args = [initial |-> initial, kwargs |-> kwargs]
    /\ blocks = <<>>
    /\ stack = IF twin THEN <<Construct(initial, kwargs)>> ELSE <<>>
    /\ deleted = IF twin THEN <<{}>> ELSE <<>>

\* StackedDict(initial): any initial mapping, no layer.
Init == \E initial \in Dicts : Constructed(<<initial>>, EmptyDict, FALSE)

\* A program that uses one StackedDict.
Next ==
    \/ \E key \in Keys, value \in Values : SetItem("s", key, value) /\ Plain
    \/ \E key \in Keys : DelItem("s", key) /\ Plain
    \/ \E key \in Keys : Pop("s", key) /\ Plain
    \/ \E key \in Keys, default \in Values : PopDefault("s", key, default) /\ Plain
    \/ PopItem("s") /\ Plain
    \/ Clear("s") /\ Plain
    \/ Commit("s") /\ Plain
    \/ Reset("s") /\ Plain

Spec == Init /\ [][Next]_vars

\* A program that also copies its StackedDict and uses the copy.
NextCopy ==
    \/ \E m \in Maps, key \in Keys, value \in Values : SetItem(m, key, value) /\ Plain
    \/ \E m \in Maps, key \in Keys : DelItem(m, key) /\ Plain
    \/ \E m \in Maps, key \in Keys : Pop(m, key) /\ Plain
    \/ \E m \in Maps, key \in Keys, default \in Values : PopDefault(m, key, default) /\ Plain
    \/ \E m \in Maps : PopItem(m) /\ Plain
    \/ \E m \in Maps : Clear(m) /\ Plain
    \/ \E m \in Maps : Commit(m) /\ Plain
    \/ \E m \in Maps : Reset(m) /\ Plain
    \/ Copy /\ Plain

SpecCopy == Init /\ [][NextCopy]_vars

\* The calls of update() a program makes: no positional argument, one, or two
\* (other is the first), and at most MaxKwargs keyword arguments.
Kwargs == {d \in Dicts : Cardinality(DOMAIN d) <= MaxKwargs}
UpdateArgs ==
    {[n |-> 0, other |-> EmptyDict, kwargs |-> kw] : kw \in Kwargs}
        \cup {[n |-> 1, other |-> d, kwargs |-> kw] : d \in Dicts, kw \in Kwargs}
        \cup {[n |-> 2, other |-> d, kwargs |-> EmptyDict] : d \in Dicts}

\* A program that uses every operation of one StackedDict.
NextAll ==
    \/ \E key \in Keys, value \in Values : SetItem("s", key, value) /\ Plain
    \/ \E key \in Keys : GetItem("s", key) /\ Plain
    \/ \E key \in Keys : DelItem("s", key) /\ Plain
    \/ \E key \in Keys : Pop("s", key) /\ Plain
    \/ \E key \in Keys, default \in Values : PopDefault("s", key, default) /\ Plain
    \/ PopItem("s") /\ Plain
    \/ Clear("s") /\ Plain
    \/ \E a \in UpdateArgs : Update("s", a.n, a.other, a.kwargs) /\ Plain
    \/ Commit("s") /\ Plain
    \/ Reset("s") /\ Plain

SpecAll == Init /\ [][NextAll]_vars

\* A program that updates its StackedDict in bulk; the arguments are kept.
Bulk(n, other, kwargs) ==
    /\ args' = [initial |-> IF n > 0 THEN <<other>> ELSE <<>>, kwargs |-> kwargs]
    /\ blocks' = Noted(blocks, last'.op)
    /\ UNCHANGED <<stack, deleted>>

NextUpdate ==
    \/ \E a \in UpdateArgs : Update("s", a.n, a.other, a.kwargs) /\ Bulk(a.n, a.other, a.kwargs)
    \/ \E key \in Keys, value \in Values : SetItem("s", key, value) /\ Plain
    \/ Commit("s") /\ Plain
    \/ Reset("s") /\ Plain

SpecUpdate == Init /\ [][NextUpdate]_vars

\* A program that uses its StackedDict in "with s:" blocks.
NextWith ==
    \/ \E key \in Keys, value \in Values : SetItem("s", key, value) /\ Plain
    \/ \E key \in Keys : DelItem("s", key) /\ Plain
    \/ Commit("s") /\ Plain
    \/ Reset("s") /\ Plain
    \/ Enter("s")
    \/ \E raised \in BOOLEAN : Exit("s", raised)

SpecWith == Init /\ [][NextWith]_vars

\* A program that uses the form of the __enter__ docstring, "with s.commit():",
\* next to "with s:". Between s.commit() and __enter__ nothing else runs.
NextDoc ==
    \/ \E key \in Keys, value \in Values : ~Entering /\ SetItem("s", key, value) /\ Plain
    \/ \E key \in Keys : ~Entering /\ DelItem("s", key) /\ Plain
    \/ WithCommit("s")
    \/ Enter("s")
    \/ \E raised \in BOOLEAN : ~Entering /\ Exit("s", raised)

SpecDoc == Init /\ [][NextDoc]_vars

\* A program that builds its StackedDict from a mapping, keywords, or both.
InitNew ==
    \E initial \in {<<>>} \cup {<<d>> : d \in Dicts}, kwargs \in Dicts :
       Constructed(initial, kwargs, FALSE)

NextNew ==
    \/ \E key \in Keys, value \in Values : SetItem("s", key, value) /\ Plain
    \/ \E key \in Keys : GetItem("s", key) /\ Plain

SpecNew == InitNew /\ [][NextNew]_vars

\* A program that makes every call on a StackedDict of each implementation,
\* built from equal mappings, and never pops below the base.
InitBoth == \E initial \in Dicts : Constructed(<<initial>>, EmptyDict, TRUE)

NextBoth ==
    \/ \E key \in Keys, value \in Values :
          SetItem("s", key, value) /\ StackSetItem(key, value) /\ Paired
    \/ \E key \in Keys : DelItem("s", key) /\ StackDelItem(key) /\ Paired
    \/ Commit("s") /\ StackPush /\ Paired
    \/ Reset("s") /\ StackPop /\ Paired

SpecBoth == InitBoth /\ [][NextBoth]_vars

\* ------------------------------------------------- what callers read
\* __getitem__, has_key, keys and __len__ all read _dict.
Has(m, key) == key \in DOMAIN dict[m]
Get(m, key) == dict[m][key]
KeysOf(m) == DOMAIN dict[m]
Length(m) == Cardinality(DOMAIN dict[m])
\* The number of open layers, as _has_layers sees it.
Depth(m) == Len(overriden[m])
TopCreated(m) == sets[created[m][1]]
TopOverriden(m) == dicts[overriden[m][1]]
\* The pending layers of m: the contents of its deques, top first.
Layers(m) ==
    [created |-> [i \in 1..Len(created[m]) |-> sets[created[m][i]]],
     overriden |-> [i \in 1..Len(overriden[m]) |-> dicts[overriden[m][i]]]]

\* The last call was a reset() on s that popped a layer and returned.
ResetDone == last.op = "reset" /\ last.map = "s" /\ last.result = "ok"
\* The last call was a delete on s, in an open layer, that returned.
DeleteDone == last.op = "delitem" /\ last.map = "s" /\ last.result = "ok" /\ Len(snap) > 0
SetDelOnly == {"none", "set1", "sets", "del1", "setdel"}

\* ============================================================ claims

\* C1: after a commit() and then only set and delete calls (no further
\* commit), reset() leaves the visible state equal to the state immediately
\* before that commit().
C1_RollbackRoundTrip ==
    (ResetDone /\ \A k \in Keys : popped.hist[k] \in SetDelOnly) => dict["s"] = popped.snap

\* C2: deleting a key that was absent at the layer's commit() and set inside
\* the layer makes it invisible at once, and it is still absent after the
\* layer's reset().
C2_DeleteCreatedKey ==
    /\ (DeleteDone /\ last.key \notin DOMAIN snap[1] /\ hist[1][last.key] \in {"del1", "setdel"})
          => ~Has("s", last.key)
    /\ ResetDone =>
          \A k \in Keys : (k \notin DOMAIN popped.snap /\ popped.hist[k] = "del1") => ~Has("s", k)

\* C3: for a key that existed with value v at the layer's commit(), after any
\* number of set calls on it followed by a delete, overriden[top][key] is
\* still v, and reset() restores get(key) = v.
C3_DeleteKeepsFirstBackup ==
    /\ (DeleteDone /\ last.key \in DOMAIN snap[1] /\ hist[1][last.key] = "del1")
          => /\ last.key \in DOMAIN TopOverriden("s")
             /\ TopOverriden("s")[last.key] = snap[1][last.key]
    /\ ResetDone =>
          \A k \in DOMAIN popped.snap :
             popped.hist[k] = "del1" => (Has("s", k) /\ Get("s", k) = popped.snap[k])

\* C4: a key that existed at the layer's commit() and was only set in the
\* layer, once or several times, keeps its value of commit time in
\* overriden[top], and reset() restores that value.
C4_OverwriteThenReset ==
    /\ Len(snap) > 0 =>
          \A k \in DOMAIN snap[1] :
             hist[1][k] \in {"set1", "sets"}
                => (k \in DOMAIN TopOverriden("s") /\ TopOverriden("s")[k] = snap[1][k])
    /\ ResetDone =>
          \A k \in DOMAIN popped.snap :
             popped.hist[k] \in {"set1", "sets"} => (Has("s", k) /\ Get("s", k) = popped.snap[k])

\* A key set several times in a layer to a value other than the one it had
\* at commit time, and the layer then reset.
C4_Witness ==
    /\ ResetDone
    /\ \E k \in DOMAIN popped.snap : popped.hist[k] = "sets" /\ Get("s", k) = popped.snap[k]

\* C5: with nested layers, each reset() restores the visible state to what it
\* was at the most recent commit() not yet reset, whether the layer is an
\* inner one or one that enclosed commit()...reset() blocks.
C5_NestedRoundTrip ==
    (/\ ResetDone
     /\ Len(snap) > 0 \/ \E k \in Keys : popped.hist[k] \in {"nested", "delnest"}
     /\ \A k \in Keys : popped.hist[k] \in SetDelOnly \cup {"nested", "delnest"})
        => dict["s"] = popped.snap

\* C6: reset() with no open layer raises NoRevisionException and leaves the
\* map as it was: same visible pairs, still no layer.
C6_ResetWithoutLayer ==
    [][(last'.op = "reset" /\ last'.map = "s" /\ Depth("s") = 0)
          => /\ last'.result = "NoRevisionException"
             /\ dict' = dict
             /\ created' = created /\ overriden' = overriden
             /\ sets' = sets /\ dicts' = dicts
             /\ Depth("s")' = 0]_vars

C6_Witness ==
    last.op = "reset" /\ last.result = "NoRevisionException" /\ Length("s") > 0

\* C7: commit() adds exactly one layer, an empty one, returns the map itself
\* and changes no visible value; reset() at depth n >= 1 returns and leaves
\* depth n - 1; so a reset() returns exactly when more commit() calls than
\* returned reset() calls have been made, and the depth is their difference.
C7_DepthProtocol ==
    [][/\ (last'.op = "commit" /\ last'.map = "s")
            => /\ Depth("s")' = Depth("s") + 1
               /\ Len(created'["s"]) = Len(created["s"]) + 1
               /\ TopCreated("s")' = {} /\ TopOverriden("s")' = EmptyDict
               /\ last'.result = "ok" /\ last'.ret = "self"
               /\ dict'["s"] = dict["s"]
       /\ (last'.op = "reset" /\ last'.map = "s")
            => /\ Depth("s") >= 1 => (last'.result = "ok" /\ Depth("s")' = Depth("s") - 1)
               /\ last'.result = "ok" <=> open > 0
       /\ open' = Depth("s")']_vars

\* A reset() that returned with a layer still open below it.
C7_Witness ==
    ResetDone /\ Depth("s") >= 1 /\ open = Depth("s")

\* C8: after s2 = s.copy(), no call on s2 changes the visible state or the
\* pending layers of s, and no call on s changes those of s2.
C8_CopyIsIndependent ==
    [][/\ (last'.map = "s2")
            => (dict'["s"] = dict["s"] /\ Layers("s")' = Layers("s"))
       /\ (last'.map = "s" /\ last'.op # "copy" /\ "s2" \in alive)
            => (dict'["s2"] = dict["s2"] /\ Layers("s2")' = Layers("s2"))]_vars

\* C9: after set and delete calls in a layer, clear() followed by reset()
\* restores the visible state of before the layer's commit().
C9_ClearThenReset ==
    (ResetDone /\ \A k \in Keys : popped.hist[k] = "cleared") => dict["s"] = popped.snap

\* C10: clear() returns without raising and leaves length() = 0, at any
\* depth, also in a layer where keys were set and deleted before.
C10_ClearEmpties ==
    [][(/\ last'.op = "clear" /\ last'.map = "s"
        /\ Len(hist) > 0 => \A k \in Keys : hist[1][k] \in SetDelOnly)
          => (last'.result = "ok" /\ Length("s")' = 0)]_vars

\* C11: a call of get, delete, pop, popitem, clear, update or reset that
\* fails with an error leaves the visible state and the created and overriden
\* records of every layer exactly as they were before the call.
C11_NoPartialMutation ==
    [][(/\ last'.map = "s"
        /\ last'.op \in {"getitem", "delitem", "pop", "popitem", "clear", "update", "reset"}
        /\ last'.result # "ok")
          => (dict'["s"] = dict["s"] /\ Layers("s")' = Layers("s"))]_vars

\* The value the last call returned, read as a mapping: the map itself shows
\* its visible pairs.
ReturnedMap == IF last.ret = "self" THEN dict[last.map] ELSE EmptyDict
OnlySet == {"none", "set1", "sets"}

\* C12: reset() returns a mapping of the popped layer's net changes: the keys
\* touched in the layer (here by set and delete calls), each with the value it
\* had right before the rollback.
C12_ResetReturnsChanges ==
    [][(ResetDone' /\ \A k \in Keys : hist[1][k] \in SetDelOnly)
          => ReturnedMap' = [k \in {q \in DOMAIN dict["s"] : hist[1][q] # "none"} |-> dict["s"][k]]]_vars

\* C12, amended: reset() returns the map itself; read as a mapping, the
\* returned value shows the restored state, which after a layer of set calls
\* is the state of before the layer's commit(), not what the layer wrote.
C12_ResetReturnsSelf ==
    [][ResetDone'
          => /\ last'.ret = "self"
             /\ (\A k \in Keys : hist[1][k] \in OnlySet) => ReturnedMap' = snap[1]]_vars

\* A reset() returned the map after a layer that had overwritten a key.
C12_Witness ==
    /\ ResetDone /\ last.ret = "self"
    /\ \E k \in DOMAIN popped.snap : popped.hist[k] \in {"set1", "sets"} /\ ReturnedMap[k] = popped.snap[k]

\* C13: "with s:" performs commit() on entry and reset() on exit, also when
\* the block is left by an exception; after a block of set and delete calls
\* the depth and the visible state are those at entry, and an exception of
\* the block propagates.
C13_ContextScoped ==
    [][/\ last'.op = "enter" => (Depth("s")' = Depth("s") + 1 /\ dict'["s"] = dict["s"])
       /\ (last'.op = "exit" /\ blocks[1].body = "setdel")
            => /\ Depth("s")' = blocks[1].depth
               /\ dict'["s"] = blocks[1].dict
               /\ last'.key = "raised" => last'.result = "raised"]_vars

\* C14: in an open layer, pop(key) of a visible key and popitem() on a map
\* that is not empty return the current value of the key they remove and
\* make it invisible, whether the key was there before the layer, was set in
\* it or was created in it; and after a layer of set, pop and popitem calls
\* reset() restores the visible state of before the layer's commit().
C14_PopInLayer ==
    [][/\ (/\ last'.map = "s" /\ Depth("s") >= 1
           /\ \/ last'.op = "pop" /\ last'.key \in DOMAIN dict["s"]
              \/ last'.op = "popitem" /\ dict["s"] # EmptyDict)
            => /\ last'.result = "ok"
               /\ last'.key \in DOMAIN dict["s"]
               /\ last'.value = dict["s"][last'.key]
               /\ dict'["s"] = Remove(dict["s"], last'.key)
       /\ (ResetDone' /\ \A k \in Keys : hist[1][k] \in OnlySet \cup {"pops"})
            => dict'["s"] = snap[1]]_vars

\* A layer that popped a key it had found and a key it had created was reset.
C14_Witness ==
    /\ ResetDone /\ dict["s"] = popped.snap
    /\ \E k \in DOMAIN popped.snap : popped.hist[k] = "pops"
    /\ \E k \in Keys \ DOMAIN popped.snap : popped.hist[k] = "pops"

\* C15: pop(key, default) for a key that is not visible returns a value (the
\* default) and changes nothing: the visible state and the records of every
\* layer stay as they were, so that no later reset() makes the key appear.
C15_PopDefaultAbsent ==
    [][(last'.op = "popdefault" /\ last'.map = "s" /\ last'.key \notin DOMAIN dict["s"])
          => /\ last'.result = "ok" /\ last'.ret = "value"
             /\ dict'["s"] = dict["s"]
             /\ Layers("s")' = Layers("s")]_vars

\* C16: get(key) and delete(key) of a key that is not visible raise KeyError
\* at any depth, also for a key that a delete in the same or in an enclosing
\* layer has removed, and leave the visible state and every layer's records
\* unchanged.
C16_AbsentKeyError ==
    [][(/\ last'.map = "s" /\ last'.op \in {"getitem", "delitem"}
        /\ last'.key \notin DOMAIN dict["s"])
          => /\ last'.result = "KeyError"
             /\ dict'["s"] = dict["s"]
             /\ Layers("s")' = Layers("s")]_vars

\* In a layer, a second delete of a key that was there at commit() raised
\* KeyError.
C16_Witness ==
    /\ last.op = "delitem" /\ last.result = "KeyError" /\ Len(snap) > 0
    /\ last.key \in DOMAIN snap[1] /\ hist[1][last.key] = "setdel"

\* The layer the last reset() popped held one set call, of key k.
OneSet(k) == popped.hist[k] = "set1" /\ \A q \in Keys \ {k} : popped.hist[q] = "none"

\* C17: length() after commit(); set(k, v); reset() is length() of before the
\* commit(), whether k was there before or is new; and length() is always
\* the number of keys for which has(key) is true.
C17_LengthRoundTrip ==
    /\ (ResetDone /\ \E k \in Keys : OneSet(k)) => Length("s") = Cardinality(DOMAIN popped.snap)
    /\ Length("s") = Cardinality({k \in Keys : Has("s", k)})

\* commit(); set(k, v); reset() was run with a new key k on a map that held
\* another key.
C17_Witness ==
    /\ ResetDone /\ Length("s") = 1
    /\ \E k \in Keys \ DOMAIN popped.snap : OneSet(k)

\* g written over f, entry by entry.
Merge(f, g) == [k \in (DOMAIN f) \cup (DOMAIN g) |-> IF k \in DOMAIN g THEN g[k] ELSE f[k]]
\* The positional mapping kept in args, or no entry when there was none.
Positional == IF args.initial = <<>> THEN EmptyDict ELSE args.initial[1]

\* C18: update() with more than one positional argument raises TypeError and
\* writes nothing; with at most one positional mapping and keyword entries
\* it returns with every entry written (keywords last), through the path of
\* set: in a layer of set and update calls the records are such that
\* reset() gives back the state of before the layer's commit().
C18_UpdateArity ==
    [][/\ (last'.op = "update" /\ last'.value > 1)
            => /\ last'.result = "TypeError"
               /\ dict'["s"] = dict["s"] /\ Layers("s")' = Layers("s")
       /\ (last'.op = "update" /\ last'.value <= 1)
            => /\ last'.result = "ok"
               /\ dict'["s"] = Merge(Merge(dict["s"], Positional'), args'.kwargs)
               /\ (Len(hist) > 0 /\ \A k \in Keys : hist'[1][k] \in OnlySet)
                    => \A ord \in Orders :
                          ResetTop(dict'["s"], TopCreated("s")', TopOverriden("s")', ord)
                             = [d |-> snap[1], exc |-> "ok"]
       /\ (ResetDone' /\ \A k \in Keys : hist[1][k] \in OnlySet) => dict'["s"] = snap[1]]_vars

\* In a layer, an update with a positional mapping and a keyword entry wrote
\* something new.
C18_Witness ==
    /\ last.op = "update" /\ last.result = "ok" /\ last.value = 1
    /\ Positional # EmptyDict /\ args.kwargs # EmptyDict
    /\ Len(snap) > 0 /\ dict["s"] # snap[1]
    /\ \A k \in Keys : hist[1][k] \in OnlySet

\* C19: a map built from an initial mapping and keyword entries shows the
\* entries of both; built from one of them it shows exactly those entries;
\* built from neither it is empty.
C19_Construction ==
    last.op = "init" => dict["s"] = Merge(Positional, args.kwargs)

\* What s[key] gives: the value, or KeyError.
GetResult(key) ==
    IF Has("s", key) THEN [exc |-> "ok", value |-> Get("s", key)] ELSE [exc |-> "KeyError", value |-> 0]

\* C20: after every step of a run of set, delete, push/commit and pop/reset
\* calls made on both implementations, never popping below the base, the two
\* give the same result of get (value or KeyError), the same membership and
\* the same set of keys.
C20_SameBehaviour ==
    /\ \A key \in Keys : GetResult(key) = StackGetItem(key) /\ Has("s", key) = StackHasKey(key)
    /\ KeysOf("s") = StackKeys

\* C21: in every reachable state and for every open layer, no key is both in
\* the layer's created set and in its overriden mapping.
C21_Disjoint ==
    \A i \in 1..Len(created["s"]) :
        Layers("s").created[i] \cap DOMAIN Layers("s").overriden[i] = {}

\* Layer i deleted key k, which existed at its commit(), and nothing but
\* commit()...reset() blocks of set and delete followed in or above it.
Gone(i, k) ==
    /\ i <= Len(hist)
    /\ hist[i][k] \in {"del1", "delnest"}
    /\ k \in DOMAIN snap[i]
    /\ \A j \in 1..(i - 1) : hist[j][k] = "none"

\* C22: a key deleted in a layer stays invisible through later commits and
\* through the resets of the layers nested above it, and is visible again with
\* the value it had at the layer's commit once the layer itself is reset.
C22_DeletedUntilReset ==
    \A k \in Keys :
        /\ \A i \in 1..Len(hist) : Gone(i, k) => ~Has("s", k)
        /\ (ResetDone /\ popped.hist[k] \in {"del1", "delnest"} /\ k \in DOMAIN popped.snap)
               => (Has("s", k) /\ Get("s", k) = popped.snap[k])

\* C23: with a layer open, every key of the top created set is visible, and a
\* reset() with a layer open returns: it never raises KeyError.
C23_ResetCompletes ==
    /\ HasLayers("s") => TopCreated("s") \subseteq KeysOf("s")
    /\ (last.op = "reset" /\ last.map = "s") => last.result \in {"ok", "NoRevisionException"}
    /\ (last.op = "reset" /\ last.map = "s" /\ last.result = "NoRevisionException") => open = 0

\* A reset() that returned, of a layer that held more than set and delete,
\* with a layer below it still open that created a key.
C23_Witness ==
    /\ ResetDone
    /\ HasLayers("s") /\ TopCreated("s") # {}
    /\ \E k \in Keys : popped.hist[k] = "other"

\* What del s[key] and s.pop(key) would each leave, from the present state:
\* the visible pairs and the records of the top layer.
AfterDel(key) ==
    LET t == Top("s")
        r == DelItemTop(HasLayers("s"), t.d, t.c, t.o, key)
    IN [d |-> r.d, c |-> r.c, o |-> r.o]
AfterPop(key) ==
    LET t == Top("s")
        r == PopTop(HasLayers("s"), t.d, t.c, t.o, key, FALSE, 0)
    IN [d |-> r.d, c |-> r.c, o |-> r.o]

\* C24: for a visible key, at any depth, del s[key] and s.pop(key) leave the
\* same visible state and the same created and overriden records in the top
\* layer.
C24_DelIsPop ==
    \A key \in KeysOf("s") : AfterDel(key) = AfterPop(key)

\* C25: when the block of a "with s.commit():" statement is left, after set
\* and delete calls only, the number of open layers and the visible state are
\* those of before the statement.
C25_DocFormBalanced ==
    [][(last'.op = "exit" /\ blocks[1].form = "commit" /\ blocks[1].body = "setdel")
            => (Depth("s")' = blocks[1].depth /\ dict'["s"] = blocks[1].dict)]_vars

\* C26: in the snapshot implementation a key is reported by keys() if and
\* only if "key in s" is true, if and only if s[key] returns a value.
C26_StackReadsAgree ==
    \A key \in Keys :
        /\ (key \in StackKeys) <=> StackHasKey(key)
        /\ StackHasKey(key) <=> (StackGetItem(key).exc = "ok")

\* C27: the sequence of created sets and the sequence of overriden mappings
\* of a map have the same length, so _has_layers(), which looks at the
\* overriden ones only, is true exactly when there is a top created set.
C27_StacksInStep ==
    \A m \in Maps :
        /\ Len(created[m]) = Len(overriden[m])
        /\ HasLayers(m) <=> Len(created[m]) > 0

\* A reset() has returned, and the map and its copy are at different depths,
\* the copy with a layer open.
C27_Witness ==
    /\ "s2" \in alive
    /\ last.op = "reset" /\ last.result = "ok"
    /\ Len(created["s2"]) >= 1
    /\ Len(created["s"]) # Len(created["s2"])

====
